---- MODULE Spec2Model ----
(***************************************************************************)
(* Model of stonesoup/functions/interpolate.py: time_range,                *)
(* interpolate_state_mutable_sequence and _get_previous_state.             *)
(*                                                                         *)
(* A datetime is an integer count of ticks.  A float is an exact rational  *)
(* <<numerator, denominator>> in lowest terms with a positive denominator  *)
(* (rounding of IEEE doubles is not modelled).  A State is a record        *)
(* [timestamp, state_vector, covar, id]: covar stands for every attribute  *)
(* that from_state copies from its template, id for the object identity.   *)
(* A dict is the sequence of its [key, value] items in insertion order.    *)
(***************************************************************************)
EXTENDS Integers, Sequences, FiniteSets, TLC

\* Longest input sequence (number of states in sms).
MaxLen == 3
\* State timestamps are drawn from 0..MaxTime, query times from -1..MaxTime+1.
MaxTime == 3
\* Longest list of query times.
MaxQuery == 2
\* Seconds per tick: datetime.timestamp() of tick t is t * TickSeconds.
TickSeconds == 2
\* time_range: largest timestep, in ticks.
MaxStep == 3

VARIABLES
    pc,                    \* position in interpolate_state_mutable_sequence
    heap,                  \* objects: reference -> StateMutableSequence
    arg,                   \* the caller's `times` argument
    times,                 \* the parameter `times` as a list
    new_sms,               \* reference held by the local new_sms (0: unbound)
    time_state_dict,
    warning,               \* what warnings.warn was given
    times_to_interpolate,
    interp_output,
    cursor,                \* closure state of retrieve_previous_state_fun
    state_index,
    exc,                   \* exception that left the function
    ret,                   \* value returned
    tr,                    \* the time_range generator
    pt                     \* a predecessor cursor called on its own

vars == <<pc, heap, arg, times, new_sms, time_state_dict, warning,
          times_to_interpolate, interp_output, cursor, state_index, exc, ret, tr, pt>>

interpVars == <<pc, heap, arg, times, new_sms, time_state_dict, warning,
                times_to_interpolate, interp_output, cursor, state_index, exc, ret>>

----------------------------------------------------------------------------
\* Floats as exact rationals.

Abs(x) == IF x < 0 THEN -x ELSE x

RECURSIVE GCD(_, _)
GCD(a, b) == IF b = 0 THEN a ELSE GCD(b, a % b)

Rat(n, d) ==
    LET s == IF d < 0 THEN -1 ELSE 1
        g == GCD(Abs(n), Abs(d))
    IN  <<(s * n) \div g, (s * d) \div g>>

RatAdd(a, b) == Rat(a[1] * b[2] + b[1] * a[2], a[2] * b[2])
RatSub(a, b) == Rat(a[1] * b[2] - b[1] * a[2], a[2] * b[2])
RatMul(a, b) == Rat(a[1] * b[1], a[2] * b[2])
RatDiv(a, b) == Rat(a[1] * b[2], a[2] * b[1])
RatLess(a, b) == a[1] * b[2] < b[1] * a[2]

\* datetime.timestamp(): seconds as a float.
timestamp(t) == Rat(t * TickSeconds, 1)

\* ndarray.astype(float) of a column of numbers.
astype_float(v) == [e \in 1..Len(v) |-> Rat(v[e][1], v[e][2])]

----------------------------------------------------------------------------
\* Sequences, sets and dicts.

RECURSIVE sorted(_)
sorted(S) ==
    IF S = {} THEN <<>>
    ELSE LET m == CHOOSE x \in S : \A y \in S : x <= y
         IN  <<m>> \o sorted(S \ {m})

Range(s) == {s[i] : i \in 1..Len(s)}

SeqMax(s) == CHOOSE x \in Range(s) : \A y \in Range(s) : y <= x
SeqMin(s) == CHOOSE x \in Range(s) : \A y \in Range(s) : x <= y

\* Line 118 with strict comparisons.
RECURSIVE FilterStrict(_, _, _)
FilterStrict(s, lo, hi) ==
    IF s = <<>> THEN <<>>
    ELSE LET rest == FilterStrict(Tail(s), lo, hi)
         IN  IF lo < Head(s) /\ Head(s) < hi THEN <<Head(s)>> \o rest ELSE rest

\* Line 118 without the upper bound.
RECURSIVE FilterLower(_, _, _)
FilterLower(s, lo, hi) ==
    IF s = <<>> THEN <<>>
    ELSE LET rest == FilterLower(Tail(s), lo, hi)
         IN  IF lo <= Head(s) THEN <<Head(s)>> \o rest ELSE rest

\* Line 118: [time for time in times if min_state_time <= time <= max_state_time].
RECURSIVE Filter(_, _, _)
Filter(s, lo, hi) ==
    IF s = <<>> THEN <<>>
    ELSE LET rest == Filter(Tail(s), lo, hi)
         IN  IF lo <= Head(s) /\ Head(s) <= hi THEN <<Head(s)>> \o rest ELSE rest

HasKey(d, k) == \E i \in 1..Len(d) : d[i].key = k
KeyIndex(d, k) == CHOOSE i \in 1..Len(d) : d[i].key = k
DictGet(d, k) == d[KeyIndex(d, k)].value
DictKeys(d) == [i \in 1..Len(d) |-> d[i].key]

\* d[k] = v keeping the first position.
DictSetKeepFirst(d, k, v) ==
    IF HasKey(d, k) THEN d ELSE Append(d, [key |-> k, value |-> v])

\* d[k] = v: an existing key keeps its position and takes the new value.
DictSet(d, k, v) ==
    IF HasKey(d, k)
    THEN [d EXCEPT ![KeyIndex(d, k)] = [key |-> k, value |-> v]]
    ELSE Append(d, [key |-> k, value |-> v])

\* Lines 109-110 iterating sms backwards.
RECURSIVE DictOfStatesReversed(_)
DictOfStatesReversed(states) ==
    IF states = <<>> THEN <<>>
    ELSE DictSet(DictOfStatesReversed(Tail(states)), Head(states).timestamp, Head(states))

\* {state.timestamp: state for state in sms}
RECURSIVE DictOfStates(_)
DictOfStates(states) ==
    IF states = <<>> THEN <<>>
    ELSE LET n == Len(states)
         IN  DictSet(DictOfStates(SubSeq(states, 1, n - 1)),
                     states[n].timestamp, states[n])

----------------------------------------------------------------------------
\* States and sequences of states.

NoState == [timestamp |-> 0, state_vector |-> <<>>, covar |-> 0, id |-> 0]

\* The vector of the i-th input state: two components with different,
\* non-constant slopes, so that no two input states share a vector.
VectorOf(i) == <<Rat(i * i, 1), Rat(7 - 2 * i, 1)>>

StateTimes == 0..MaxTime
QueryTimes == (0 - 1)..(MaxTime + 1)

StateSeqs == UNION {[1..n -> StateTimes] : n \in 0..MaxLen}

MkStates(f) ==
    [i \in 1..Len(f) |->
        [timestamp |-> f[i], state_vector |-> VectorOf(i), covar |-> i, id |-> i]]

QueryLists == UNION {[1..n -> QueryTimes] : n \in 0..MaxQuery}

Args == {[single |-> FALSE, times |-> q] : q \in QueryLists}
        \cup {[single |-> TRUE, times |-> <<t>>] : t \in QueryTimes}

\* The references: the caller's sms, and the object copy.copy allocates.
SmsRef == 1
Refs == {1, 2}

NoObject == [alloc |-> FALSE, states |-> <<>>, has_metadatas |-> FALSE, metadatas |-> <<>>]

\* copy.copy(sms) without the copy.
copy_alias(h, r) == [heap |-> h, ref |-> r]

\* copy.copy(sms): a new object with the same attribute values.
copy_copy(h, r) ==
    LET fresh == CHOOSE x \in Refs : ~h[x].alloc
    IN  [heap |-> [h EXCEPT ![fresh] = h[r]], ref |-> fresh]

\* Line 124: set(times).difference(new_times), without the difference.
removed_times_all(ts, new_times) == Range(ts)

\* Line 124: set(times).difference(new_times).
removed_times(ts, new_times) == Range(ts) \ Range(new_times)

\* Line 158 walking the times in ascending order.
states_for_sorted(d, ts) ==
    LET st == sorted(Range(ts))
    IN  [i \in 1..Len(st) |-> DictGet(d, st[i])]

\* Line 158: [time_state_dict[time] for time in times].
states_for(d, ts) == [i \in 1..Len(ts) |-> DictGet(d, ts[i])]

\* State.from_state(state, timestamp=..., state_vector=...): a new object.
from_state(state, ts, vector, fresh_id) ==
    [timestamp |-> ts, state_vector |-> vector, covar |-> state.covar, id |-> fresh_id]

----------------------------------------------------------------------------
\* numpy.interp(x, xp, fp) for one x (left and right default to fp[0], fp[-1];
\* the search is numpy's linear search for short xp).

RECURSIVE LinearSearch(_, _, _)
LinearSearch(key, arr, i) ==
    IF i <= Len(arr) /\ ~RatLess(key, arr[i])
    THEN LinearSearch(key, arr, i + 1)
    ELSE i - 1

np_interp(x, xp, fp) ==
    LET n == Len(xp)
    IN  IF RatLess(xp[n], x) THEN fp[n]
        ELSE IF RatLess(x, xp[1]) THEN fp[1]
        ELSE LET j == LinearSearch(x, xp, 2)
             IN  IF j = n THEN fp[j]
                 ELSE IF xp[j] = x THEN fp[j]
                 ELSE LET slope == RatDiv(RatSub(fp[j + 1], fp[j]),
                                          RatSub(xp[j + 1], xp[j]))
                      IN  RatAdd(RatMul(slope, RatSub(x, xp[j])), fp[j])

\* Lines 136-148 interpolating every row from the first row of state_vectors.
InterpOutputFirstRow(d, tti, ndim) ==
    LET state_vectors == [e \in 1..ndim |->
                             [j \in 1..Len(d) |-> astype_float(d[j].value.state_vector)[e]]]
        state_timestamps == [j \in 1..Len(d) |-> timestamp(d[j].key)]
        interp_timestamps == [i \in 1..Len(tti) |-> timestamp(tti[i])]
    IN  [element_index \in 1..ndim |->
            [i \in 1..Len(tti) |->
                np_interp(interp_timestamps[i], state_timestamps, state_vectors[1])]]

\* Lines 136-148: the ndim x len(times_to_interpolate) matrix interp_output.
InterpOutput(d, tti, ndim) ==
    LET state_vectors == [e \in 1..ndim |->
                             [j \in 1..Len(d) |-> astype_float(d[j].value.state_vector)[e]]]
        state_timestamps == [j \in 1..Len(d) |-> timestamp(d[j].key)]
        interp_timestamps == [i \in 1..Len(tti) |-> timestamp(tti[i])]
    IN  [element_index \in 1..ndim |->
            [i \in 1..Len(tti) |->
                np_interp(interp_timestamps[i], state_timestamps,
                          state_vectors[element_index])]]

----------------------------------------------------------------------------
\* _get_previous_state: the closure holds state_before, state_after and the
\* pairwise iterator, whose position pos is the number of pairs taken.

NoCursor == [pos |-> 0, state_before |-> NoState, state_after |-> NoState]

_get_previous_state(states) ==
    IF Len(states) < 2
    THEN [raised |-> TRUE, cursor |-> NoCursor]
    ELSE [raised |-> FALSE,
          cursor |-> [pos |-> 1, state_before |-> states[1], state_after |-> states[2]]]

\* inner_fun returning state_after.
RECURSIVE inner_fun_after(_, _, _)
inner_fun_after(c, states, t) ==
    IF c.state_after.timestamp < t
    THEN IF c.pos + 2 > Len(states)
         THEN [raised |-> TRUE, cursor |-> c, value |-> NoState]
         ELSE inner_fun_after([pos |-> c.pos + 1,
                               state_before |-> states[c.pos + 1],
                               state_after |-> states[c.pos + 2]], states, t)
    ELSE [raised |-> FALSE, cursor |-> c, value |-> c.state_after]

\* inner_fun advancing while state_after.timestamp <= t.
RECURSIVE inner_fun_le(_, _, _)
inner_fun_le(c, states, t) ==
    IF c.state_after.timestamp <= t
    THEN IF c.pos + 2 > Len(states)
         THEN [raised |-> TRUE, cursor |-> c, value |-> NoState]
         ELSE inner_fun_le([pos |-> c.pos + 1,
                            state_before |-> states[c.pos + 1],
                            state_after |-> states[c.pos + 2]], states, t)
    ELSE [raised |-> FALSE, cursor |-> c, value |-> c.state_before]

\* inner_fun walking the pairs from the first pair at every call.
RECURSIVE inner_fun_restart(_, _, _)
inner_fun_restart(c, states, t) ==
    LET first == [pos |-> 1, state_before |-> states[1], state_after |-> states[2]]
        walk[k \in 1..Len(states)] ==
            LET p == [pos |-> k, state_before |-> states[k], state_after |-> states[k + 1]]
            IN  IF p.state_after.timestamp < t
                THEN IF k + 2 > Len(states)
                     THEN [raised |-> TRUE, cursor |-> p, value |-> NoState]
                     ELSE walk[k + 1]
                ELSE [raised |-> FALSE, cursor |-> p, value |-> p.state_before]
    IN  walk[first.pos]

\* inner_fun(t): the closure's state_before, state_after and iterator position
\* are c; on StopIteration the closure keeps the last pair it reached.
RECURSIVE inner_fun(_, _, _)
inner_fun(c, states, t) ==
    IF c.state_after.timestamp < t
    THEN IF c.pos + 2 > Len(states)
         THEN [raised |-> TRUE, cursor |-> c, value |-> NoState]
         ELSE inner_fun([pos |-> c.pos + 1,
                         state_before |-> states[c.pos + 1],
                         state_after |-> states[c.pos + 2]], states, t)
    ELSE [raised |-> FALSE, cursor |-> c, value |-> c.state_before]

----------------------------------------------------------------------------
\* interpolate_state_mutable_sequence(sms, times)

NoWarning == [emitted |-> FALSE, removed_times |-> {}]
NoException == [type |-> "none", msg |-> "none"]
NoReturn == [kind |-> "none", states |-> <<>>]
IdlePredecessor == [pc |-> "idle", states |-> <<>>, cursor |-> NoCursor, called |-> FALSE,
                    t |-> 0, value |-> NoState, raised |-> FALSE,
                    ordered |-> TRUE, in_range |-> TRUE]

IdleTimeRange == [pc |-> "idle", start_time |-> 0, end_time |-> 0, timestep |-> 1,
                  n_time_steps |-> <<0, 1>>, x |-> 0, yielded |-> <<>>]

InitLocals ==
    /\ new_sms = 0
    /\ time_state_dict = <<>>
    /\ warning = NoWarning
    /\ times_to_interpolate = <<>>
    /\ interp_output = <<>>
    /\ cursor = NoCursor
    /\ state_index = 0
    /\ exc = NoException
    /\ ret = NoReturn

Init ==
    /\ pc = "start"
    /\ \E f \in StateSeqs, m \in BOOLEAN :
          heap = [r \in Refs |->
                    IF r = SmsRef
                    THEN [alloc |-> TRUE, states |-> MkStates(f), has_metadatas |-> m,
                          metadatas |-> IF m THEN [i \in 1..Len(f) |-> i] ELSE <<>>]
                    ELSE NoObject]
    /\ arg \in Args
    /\ times = arg.times
    /\ InitLocals
    /\ tr = IdleTimeRange
    /\ pt = IdlePredecessor

sms == heap[SmsRef]

Raise(type, msg) ==
    /\ pc' = "raised"
    /\ exc' = [type |-> type, msg |-> msg]

\* Lines 98-99: a single datetime is put in a list and the function runs again
\* (arg.times holds the datetime as the one-element list the inner call gets).
SingleTime ==
    /\ pc = "start"
    /\ arg.single
    /\ times' = <<arg.times[1]>>
    /\ pc' = "inner"
    /\ UNCHANGED <<heap, arg, new_sms, time_state_dict, warning, times_to_interpolate,
                   interp_output, cursor, state_index, exc, ret, tr, pt>>

\* Lines 98 and 103-105: times is a list, of the caller or of the outer call.
CopySequence ==
    /\ \/ pc = "start" /\ ~arg.single
       \/ pc = "inner"
    /\ LET c == copy_copy(heap, SmsRef)
       IN  /\ new_sms' = c.ref
           /\ heap' = IF c.heap[c.ref].has_metadatas
                      THEN [c.heap EXCEPT ![c.ref].metadatas = <<>>]
                      ELSE c.heap
    /\ pc' = "dict"
    /\ UNCHANGED <<arg, times, time_state_dict, warning, times_to_interpolate,
                   interp_output, cursor, state_index, exc, ret, tr, pt>>

\* Lines 109-110.
BuildTimeStateDict ==
    /\ pc = "dict"
    /\ time_state_dict' = DictOfStates(sms.states)
    /\ pc' = "filter"
    /\ UNCHANGED <<heap, arg, times, new_sms, warning, times_to_interpolate,
                   interp_output, cursor, state_index, exc, ret, tr, pt>>

\* Lines 113-129.
FilterTimes ==
    /\ pc = "filter"
    /\ IF sms.states = <<>>
       THEN /\ Raise("IndexError", "list index out of range")
            /\ UNCHANGED <<times, warning>>
       ELSE LET max_state_time == sms.states[Len(sms.states)].timestamp
                min_state_time == sms.states[1].timestamp
            IN  IF times = <<>>
                THEN /\ Raise("ValueError", "max() arg is an empty sequence")
                     /\ UNCHANGED <<times, warning>>
                ELSE IF SeqMax(times) > max_state_time \/ SeqMin(times) < min_state_time
                THEN LET new_times == Filter(times, min_state_time, max_state_time)
                     IN  IF Len(new_times) = 0
                         THEN /\ Raise("IndexError", "All times are outside")
                              /\ UNCHANGED <<times, warning>>
                         ELSE /\ warning' = [emitted |-> TRUE,
                                             removed_times |-> removed_times(times, new_times)]
                              /\ times' = new_times
                              /\ pc' = "missing"
                              /\ UNCHANGED exc
                ELSE /\ pc' = "missing"
                     /\ UNCHANGED <<times, warning, exc>>
    /\ UNCHANGED <<heap, arg, new_sms, time_state_dict, times_to_interpolate,
                   interp_output, cursor, state_index, ret, tr, pt>>

\* Lines 132-134.
FindTimesToInterpolate ==
    /\ pc = "missing"
    /\ times_to_interpolate' = sorted(Range(times) \ Range(DictKeys(time_state_dict)))
    /\ pc' = IF Len(times_to_interpolate') > 0 THEN "interp" ELSE "assemble"
    /\ UNCHANGED <<heap, arg, times, new_sms, time_state_dict, warning,
                   interp_output, cursor, state_index, exc, ret, tr, pt>>

\* Lines 136-148.
Interpolate ==
    /\ pc = "interp"
    /\ interp_output' = InterpOutput(time_state_dict, times_to_interpolate,
                                     Len(sms.states[Len(sms.states)].state_vector))
    /\ pc' = "cursor"
    /\ UNCHANGED <<heap, arg, times, new_sms, time_state_dict, warning,
                   times_to_interpolate, cursor, state_index, exc, ret, tr, pt>>

\* Line 150.
MakeCursor ==
    /\ pc = "cursor"
    /\ LET r == _get_previous_state(sms.states)
       IN  IF r.raised
           THEN /\ Raise("StopIteration", "none")
                /\ UNCHANGED <<cursor, state_index>>
           ELSE /\ cursor' = r.cursor
                /\ state_index' = 0
                /\ pc' = "loop"
                /\ UNCHANGED exc
    /\ UNCHANGED <<heap, arg, times, new_sms, time_state_dict, warning,
                   times_to_interpolate, interp_output, ret, tr, pt>>

\* Lines 151-156, one iteration.
SynthesizeState ==
    /\ pc = "loop"
    /\ state_index < Len(times_to_interpolate)
    /\ LET time == times_to_interpolate[state_index + 1]
           r == inner_fun(cursor, sms.states, time)
           original_state_before == r.value
           column == [e \in 1..Len(interp_output) |-> interp_output[e][state_index + 1]]
       IN  IF r.raised
           THEN /\ Raise("StopIteration", "none")
                /\ UNCHANGED <<cursor, state_index, time_state_dict>>
           ELSE /\ cursor' = r.cursor
                /\ time_state_dict' =
                      DictSet(time_state_dict, time,
                              from_state(original_state_before, time, column,
                                         Len(sms.states) + state_index + 1))
                /\ state_index' = state_index + 1
                /\ pc' = IF state_index' < Len(times_to_interpolate) THEN "loop" ELSE "assemble"
                /\ UNCHANGED exc
    /\ UNCHANGED <<heap, arg, times, new_sms, warning, times_to_interpolate,
                   interp_output, ret, tr, pt>>

\* Lines 158-160.
AssembleStates ==
    /\ pc = "assemble"
    /\ heap' = [heap EXCEPT ![new_sms].states = states_for(time_state_dict, times)]
    /\ IF arg.single
       THEN /\ pc' = "returned"
            /\ UNCHANGED ret
       ELSE /\ pc' = "done"
            /\ ret' = [kind |-> "sequence", states |-> heap'[new_sms].states]
    /\ UNCHANGED <<arg, times, new_sms, time_state_dict, warning, times_to_interpolate,
                   interp_output, cursor, state_index, exc, tr, pt>>

\* Line 100: new_sms.state is the last state of the sequence.
ReturnState ==
    /\ pc = "returned"
    /\ ret' = [kind |-> "state",
               states |-> <<heap[new_sms].states[Len(heap[new_sms].states)]>>]
    /\ pc' = "done"
    /\ UNCHANGED <<heap, arg, times, new_sms, time_state_dict, warning,
                   times_to_interpolate, interp_output, cursor, state_index, exc, tr, pt>>

Next ==
    \/ SingleTime
    \/ CopySequence
    \/ BuildTimeStateDict
    \/ FilterTimes
    \/ FindTimesToInterpolate
    \/ Interpolate
    \/ MakeCursor
    \/ SynthesizeState
    \/ AssembleStates
    \/ ReturnState

Spec == Init /\ [][Next]_vars

----------------------------------------------------------------------------
\* time_range(start_time, end_time, timestep)

\* int(x) of a float: the fractional part is dropped (rounding toward zero).
int(q) == IF q[1] >= 0 THEN q[1] \div q[2] ELSE 0 - ((0 - q[1]) \div q[2])

\* timedelta / timedelta: true division, a float.
timedelta_div(duration, timestep) == Rat(duration, timestep)

InitIdle ==
    /\ pc = "idle"
    /\ heap = [r \in Refs |-> NoObject]
    /\ arg = [single |-> FALSE, times |-> <<>>]
    /\ times = <<>>
    /\ InitLocals

InitTimeRange ==
    /\ InitIdle
    /\ \E s \in StateTimes, e \in QueryTimes, d \in 1..MaxStep :
          tr = [pc |-> "start", start_time |-> s, end_time |-> e, timestep |-> d,
                n_time_steps |-> Rat(0, 1), x |-> 0, yielded |-> <<>>]
    /\ pt = IdlePredecessor

\* Lines 45-47: the body runs up to the loop at the first request.
TimeRangeStart ==
    /\ tr.pc = "start"
    /\ LET duration == tr.end_time - tr.start_time
       IN  tr' = [tr EXCEPT !.n_time_steps = timedelta_div(duration, tr.timestep),
                            !.x = 0,
                            !.pc = "loop"]
    /\ UNCHANGED <<interpVars, pt>>

\* Lines 47-48: one more x of range(int(n_time_steps) + 1).
TimeRangeYield ==
    /\ tr.pc = "loop"
    /\ tr.x < int(tr.n_time_steps) + 1
    /\ tr' = [tr EXCEPT !.yielded = Append(@, tr.start_time + tr.x * tr.timestep),
                        !.x = @ + 1]
    /\ UNCHANGED <<interpVars, pt>>

\* Line 47: the range is exhausted and the generator ends.
TimeRangeStop ==
    /\ tr.pc = "loop"
    /\ ~(tr.x < int(tr.n_time_steps) + 1)
    /\ tr' = [tr EXCEPT !.pc = "done"]
    /\ UNCHANGED <<interpVars, pt>>

NextTimeRange ==
    \/ TimeRangeStart
    \/ TimeRangeYield
    \/ TimeRangeStop

SpecTimeRange == InitTimeRange /\ [][NextTimeRange]_vars

----------------------------------------------------------------------------
\* _get_previous_state(sms) and the function it returns, called on their own:
\* any sequence of states, any number of calls with any times.  ordered and
\* in_range record whether the calls so far had non-decreasing times and times
\* between the first and the last timestamp of the sequence.

InitPredecessor ==
    /\ InitIdle
    /\ tr = IdleTimeRange
    /\ \E f \in StateSeqs :
          pt = [IdlePredecessor EXCEPT !.pc = "new", !.states = MkStates(f)]

\* Lines 178-179 and 187: the closure is built, or next() finds no pair.
PredecessorBuild ==
    /\ pt.pc = "new"
    /\ LET r == _get_previous_state(pt.states)
       IN  pt' = IF r.raised
                 THEN [pt EXCEPT !.pc = "failed", !.raised = TRUE]
                 ELSE [pt EXCEPT !.pc = "ready", !.cursor = r.cursor]
    /\ UNCHANGED <<interpVars, tr>>

\* Lines 181-185: one call inner_fun(t).
PredecessorCall ==
    /\ pt.pc = "ready"
    /\ \E t \in QueryTimes :
          LET r == inner_fun(pt.cursor, pt.states, t)
          IN  pt' = [pt EXCEPT
                       !.cursor = r.cursor,
                       !.called = TRUE,
                       !.t = t,
                       !.value = r.value,
                       !.raised = r.raised,
                       !.ordered = pt.ordered /\ (pt.called => pt.t <= t),
                       !.in_range = /\ pt.in_range
                                    /\ pt.states[1].timestamp <= t
                                    /\ t <= pt.states[Len(pt.states)].timestamp]
    /\ UNCHANGED <<interpVars, tr>>

NextPredecessor ==
    \/ PredecessorBuild
    \/ PredecessorCall

SpecPredecessor == InitPredecessor /\ [][NextPredecessor]_vars

----------------------------------------------------------------------------
\* Vocabulary of the claims, stated on the caller's inputs and the outcome.

Input == heap[SmsRef].states

Timestamps(states) == {states[i].timestamp : i \in 1..Len(states)}

Ascending(states) ==
    \A i, j \in 1..Len(states) : i < j => states[i].timestamp <= states[j].timestamp

HasDuplicates(states) ==
    \E i, j \in 1..Len(states) : i < j /\ states[i].timestamp = states[j].timestamp

\* The state with timestamp t that occurs last in the original order.
LastAt(states, t) ==
    states[CHOOSE i \in 1..Len(states) :
              /\ states[i].timestamp = t
              /\ \A j \in (i + 1)..Len(states) : states[j].timestamp # t]

SetMin(S) == CHOOSE x \in S : \A y \in S : x <= y
SetMax(S) == CHOOSE x \in S : \A y \in S : y <= x

\* The query times between the timestamps of the first and last input state,
\* in the caller's order.
Kept ==
    IF Input = <<>> THEN <<>>
    ELSE LET InRange(t) == /\ Input[1].timestamp <= t
                           /\ t <= Input[Len(Input)].timestamp
         IN  SelectSeq(arg.times, InRange)

Dropped == Range(arg.times) \ Range(Kept)

\* The call returned one state per kept query time.
Returned == pc = "done" /\ Len(ret.states) = Len(Kept)

\* Kept query times with no state at that time in the input.
MissingIndexes == {i \in 1..Len(Kept) : Kept[i] \notin Timestamps(Input)}
ExactIndexes == {i \in 1..Len(Kept) : Kept[i] \in Timestamps(Input)}

Before(t) == SetMax({u \in Timestamps(Input) : u < t})
After(t) == SetMin({u \in Timestamps(Input) : u > t})

\* q = v0 + (v1 - v0) * (t - t0) / (t1 - t0), for rationals q, v0, v1.
IsLinear(q, v0, v1, t0, t, t1) ==
    q[1] * (v0[2] * v1[2] * (t1 - t0))
        = q[2] * (v0[1] * v1[2] * (t1 - t0) + (v1[1] * v0[2] - v0[1] * v1[2]) * (t - t0))

----------------------------------------------------------------------------
\* Claims.

\* C1: Linearity.  For an input in ascending timestamp order (duplicates
\* allowed) and an in-range query time t that is no input timestamp, with
\* t0 < t < t1 the adjacent timestamps and v0, v1 the vectors of the
\* last-occurring states at t0 and t1, every component of the state returned
\* for t equals v0 + (v1 - v0) * (t - t0) / (t1 - t0).
C1_Linearity ==
    (pc = "done" /\ Ascending(Input)) =>
        /\ Len(ret.states) = Len(Kept)
        /\ \A i \in MissingIndexes :
              LET t == Kept[i]
                  v0 == LastAt(Input, Before(t)).state_vector
                  v1 == LastAt(Input, After(t)).state_vector
                  r == ret.states[i]
              IN  /\ r.timestamp = t
                  /\ Len(r.state_vector) = Len(v0)
                  /\ \A e \in 1..Len(v0) :
                        IsLinear(r.state_vector[e], v0[e], v1[e], Before(t), t, After(t))

C1_Witness ==
    /\ Returned
    /\ Ascending(Input)
    /\ HasDuplicates(Input)
    /\ Len(Input) = 3
    /\ MissingIndexes # {}

\* C2: Exact-time passthrough.  For a non-empty input and an in-range query
\* time t that is the timestamp of some input state, the call returns for t
\* the existing state at t, the one occurring last among those sharing t,
\* and no synthesized one.
C2_ExactPassthrough ==
    (Input # <<>> /\ ExactIndexes # {}) =>
        /\ pc # "raised"
        /\ pc = "done" =>
              /\ Len(ret.states) = Len(Kept)
              /\ \A i \in ExactIndexes : ret.states[i] = LastAt(Input, Kept[i])

C2_Witness ==
    /\ Returned
    /\ \E i \in ExactIndexes :
          \E j, k \in 1..Len(Input) :
              /\ j < k
              /\ Input[j].timestamp = Kept[i]
              /\ Input[k].timestamp = Kept[i]
              /\ ret.states[i] = Input[k]

\* C3: Range clipping.  For a query with at least one in-range and at least
\* one out-of-range time the call returns states for the in-range times only
\* and warns with exactly the set of dropped times; when every query time is
\* in range there is no warning.
C3_RangeClipping ==
    /\ (Kept # <<>> /\ Dropped # {}) =>
          /\ pc # "raised"
          /\ pc = "done" =>
                /\ Timestamps(ret.states) = Range(Kept)
                /\ Len(ret.states) = Len(Kept)
                /\ warning = [emitted |-> TRUE, removed_times |-> Dropped]
    /\ Dropped = {} => ~warning.emitted

C3_Witness ==
    /\ Returned
    /\ Kept # <<>>
    /\ Dropped # {}
    /\ warning.emitted

\* C4: All-out-of-range.  For a non-empty input and any list or single value
\* of query times, when no query time is in range the call fails with the
\* IndexError saying that all times are outside the range, and returns nothing.
C4_AllOutOfRange ==
    (Input # <<>> /\ Kept = <<>>) =>
        /\ pc # "done"
        /\ ret = NoReturn
        /\ pc = "raised" => exc = [type |-> "IndexError", msg |-> "All times are outside"]

\* C5: Order preservation.  For a list of query times the timestamps of the
\* returned states are the caller's list with the out-of-range entries
\* removed, in the caller's order.
C5_OrderPreservation ==
    (pc = "done" /\ ~arg.single) =>
        /\ ret.kind = "sequence"
        /\ [i \in 1..Len(ret.states) |-> ret.states[i].timestamp] = Kept

C5_Witness ==
    /\ Returned
    /\ ~arg.single
    /\ Len(Kept) = 2
    /\ Kept[1] > Kept[2]
    /\ MissingIndexes # {}

\* C6: Template fidelity.  For an input in ascending timestamp order and a
\* missing in-range query time, the synthesized state is cloned from the
\* last-occurring state with the greatest timestamp strictly below the query
\* time: its non-vector attributes are that predecessor's.
C6_TemplateFidelity ==
    (pc = "done" /\ Ascending(Input)) =>
        /\ Len(ret.states) = Len(Kept)
        /\ \A i \in MissingIndexes :
              /\ ret.states[i].covar = LastAt(Input, Before(Kept[i])).covar
              /\ \A k \in 1..Len(Input) : ret.states[i].id # Input[k].id

C6_Witness ==
    /\ Returned
    /\ Ascending(Input)
    /\ \E i \in MissingIndexes :
          /\ ret.states[i].covar > 1
          /\ ret.states[i].covar < Len(Input)

\* C7: time_range(start, end, step) yields exactly start + k*step for
\* k = 0 .. floor((end - start) / step), in that order, for every start, end
\* and positive step: nothing when the floor is negative, never a time after end.
C7_TimeRangeFloor ==
    tr.pc = "done" =>
        LET m == (tr.end_time - tr.start_time) \div tr.timestep
        IN  /\ Len(tr.yielded) = (IF m < 0 THEN 0 ELSE m + 1)
            /\ \A i \in 1..Len(tr.yielded) :
                  /\ tr.yielded[i] = tr.start_time + (i - 1) * tr.timestep
                  /\ tr.yielded[i] <= tr.end_time

\* C8: The input sequence is never mutated: no step of a call, whether it
\* succeeds, warns or fails, changes the input's list of states, any of those
\* states, or its metadata list.
C8_InputNotMutated == [][heap'[SmsRef] = heap[SmsRef]]_vars

C8_Witness ==
    /\ pc = "done"
    /\ new_sms # SmsRef
    /\ heap[SmsRef].metadatas # <<>>
    /\ heap[new_sms].metadatas = <<>>
    /\ heap[new_sms].states # heap[SmsRef].states

\* C9 as stated: for any non-empty input, sorted or not, a query time is kept
\* exactly when it lies between the minimum and the maximum input timestamp.
C9_MinMaxRange ==
    (Input # <<>> /\ pc \in {"missing", "interp", "cursor", "loop", "assemble", "returned", "done"}) =>
        \A i \in 1..Len(arg.times) :
            LET t == arg.times[i]
            IN  (t \in Range(times)) <=>
                    (SetMin(Timestamps(Input)) <= t /\ t <= SetMax(Timestamps(Input)))

\* C9 amended: a query time is kept exactly when it lies between the
\* timestamps of the first and the last input state, which are the minimum and
\* the maximum timestamp when the input is in ascending order; when none is
\* kept the call raises.
C9_FirstLastRange ==
    /\ (Input # <<>> /\ pc \in {"missing", "interp", "cursor", "loop", "assemble", "returned", "done"}) =>
          /\ times = Kept
          /\ Kept # <<>>
          /\ Ascending(Input) =>
                \A i \in 1..Len(arg.times) :
                    LET t == arg.times[i]
                    IN  (t \in Range(times)) <=>
                            (SetMin(Timestamps(Input)) <= t /\ t <= SetMax(Timestamps(Input)))
    /\ (Input # <<>> /\ pc = "raised" /\ arg.times # <<>>) => Kept = <<>>

C9_Witness ==
    /\ pc = "missing"
    /\ ~Ascending(Input)
    /\ Dropped # {}
    /\ \E t \in Dropped : SetMin(Timestamps(Input)) <= t /\ t <= SetMax(Timestamps(Input))

\* C10 as stated: for any input, sorted or not, the timeline the interpolation
\* works on is strictly ascending by timestamp and holds exactly one state per
\* distinct timestamp, the last-occurring one.
C10_TimelineAscending ==
    pc = "interp" =>
        /\ \A i, j \in 1..Len(time_state_dict) :
              i < j => time_state_dict[i].key < time_state_dict[j].key
        /\ Range(DictKeys(time_state_dict)) = Timestamps(Input)
        /\ \A i \in 1..Len(time_state_dict) :
              time_state_dict[i].value = LastAt(Input, time_state_dict[i].key)

\* C10 amended: for any input the timeline holds exactly one state per
\* distinct timestamp, the last-occurring one, and it is strictly ascending by
\* timestamp when the input is in ascending timestamp order.
C10_TimelineDeduplicated ==
    pc = "interp" =>
        /\ \A i, j \in 1..Len(time_state_dict) :
              i < j => time_state_dict[i].key # time_state_dict[j].key
        /\ Range(DictKeys(time_state_dict)) = Timestamps(Input)
        /\ \A i \in 1..Len(time_state_dict) :
              time_state_dict[i].value = LastAt(Input, time_state_dict[i].key)
        /\ Ascending(Input) =>
              \A i, j \in 1..Len(time_state_dict) :
                  i < j => time_state_dict[i].key < time_state_dict[j].key

C10_Witness ==
    /\ pc = "interp"
    /\ Ascending(Input)
    /\ HasDuplicates(Input)
    /\ Len(time_state_dict) = 2

\* The calls made so far on the cursor satisfy the precondition of C11: an
\* ascending timeline of at least two states, non-decreasing times between
\* the first and the last timestamp.
MonotonicCalls ==
    /\ pt.pc = "ready"
    /\ pt.called
    /\ Len(pt.states) >= 2
    /\ Ascending(pt.states)
    /\ pt.ordered
    /\ pt.in_range

\* C11 as stated: on an ascending timeline of at least two states, with
\* non-decreasing in-range call times, every call returns the timeline state
\* with the greatest timestamp that is <= t.
C11_AtOrBefore ==
    MonotonicCalls =>
        /\ ~pt.raised
        /\ pt.value.timestamp = SetMax({u \in Timestamps(pt.states) : u <= pt.t})

\* C11 amended: every such call returns the state immediately before t, the
\* last timeline state whose timestamp is strictly less than t; a call with
\* t equal to the first timestamp returns the first state.
C11_StrictlyBefore ==
    MonotonicCalls =>
        /\ ~pt.raised
        /\ pt.value =
              IF pt.t = pt.states[1].timestamp
              THEN pt.states[1]
              ELSE LastAt(pt.states, SetMax({u \in Timestamps(pt.states) : u < pt.t}))

C11_Witness ==
    /\ MonotonicCalls
    /\ pt.cursor.pos >= 2
    /\ pt.t \in Timestamps(pt.states)
    /\ pt.value.timestamp < pt.t
    /\ HasDuplicates(pt.states)

\* C12: Predecessor cursor cost.  Over the lifetime of one cursor on N
\* states, for any number and any sequence of calls, the position never moves
\* back, the pair advances made by all the calls together are at most N-1
\* (pos counts the pairs taken, the first one at construction), and a call
\* whose t does not exceed the current pair's later timestamp advances nothing.
C12_ForwardOnly ==
    [][(pt.pc = "ready" /\ pt'.pc = "ready") =>
          /\ pt'.cursor.pos >= pt.cursor.pos
          /\ pt'.cursor.pos - 1 <= Len(pt.states) - 1
          /\ pt'.t <= pt.cursor.state_after.timestamp => pt'.cursor = pt.cursor]_vars

C12_Witness ==
    /\ pt.pc = "ready"
    /\ pt.called
    /\ ~pt.ordered
    /\ Len(pt.states) = 3
    /\ pt.cursor.pos = Len(pt.states) - 1
    /\ pt.t <= pt.cursor.state_before.timestamp

\* C13: The exhausted-timeline condition never occurs inside
\* interpolate_state_mutable_sequence: for a non-empty input of any length and
\* order and a query with at least one in-range time, neither building the
\* cursor nor any of its calls runs out of pairs (StopIteration), because after
\* clipping every missing time is at most the last state's timestamp.
C13_NeverExhausted ==
    (Input # <<>> /\ Kept # <<>>) =>
        /\ exc.type # "StopIteration"
        /\ pc \in {"interp", "cursor", "loop"} =>
              /\ Len(Input) >= 2
              /\ \A i \in 1..Len(times_to_interpolate) :
                    times_to_interpolate[i] <= Input[Len(Input)].timestamp

C13_Witness ==
    /\ pc = "done"
    /\ Kept # <<>>
    /\ ~Ascending(Input)
    /\ Len(Input) = 3
    /\ state_index > 0
    /\ cursor.pos = Len(Input) - 1
    /\ cursor.state_after = Input[Len(Input)]

====
